---------------------------- MODULE Spec2Model ----------------------------
(***************************************************************************)
(* The live session transcription relay of irteqa-health-api:              *)
(*   app/websockets/session_ws.py   ConnectionManager (the session hub),   *)
(*                                  handle_audio_websocket,                *)
(*                                  handle_transcript_stream               *)
(*   app/services/deepgram_service.py  DeepgramService (the bridge)        *)
(*                                                                         *)
(* One asyncio event loop runs the handlers (one coroutine per websocket)  *)
(* and the on_transcript callbacks (one coroutine per provider result).    *)
(* An action is the code a coroutine runs between two suspension points    *)
(* (await on socket accept/receive/send, database execute/commit).  The    *)
(* provider's own thread delivers results and close events.                *)
(*                                                                         *)
(* Python objects that are shared by reference (the per-session set of     *)
(* websockets and the per-session transcript list) live in two heaps,      *)
(* sets and lists; a dict maps a session id to an index of the heap.       *)
(***************************************************************************)
EXTENDS Integers, Sequences, FiniteSets, TLC

\* ------------------------------------------------------------------ bounds
\* websockets in all; those that clients of Spec and SpecStream open
MaxSockets == 3
MaxClients == 2
MaxEvents == 1
MaxFrames == 1
\* results per behaviour of SpecStream
MaxStreamEvents == 2
\* results per behaviour of SpecSession
MaxSessionEvents == 1
MaxStoreEvents == 2

\* ------------------------------------------------------------- value sets
WebSockets == 1..MaxSockets
Clients == 1..MaxClients
\* session ids a client may name; only those of ExistingSessions have a row
SessionIds == {"s1", "s2"}
ExistingSessions == {"s1"}
\* recognised text of a provider result; "" is the empty transcript
Texts == {"", "a"}
\* the same with a transcript of white space only
BlankTexts == {"", " "}
SessionTexts == Texts \cup BlankTexts
StoreTexts == {"a", "b"}

VARIABLES
    \* ConnectionManager
    active_connections,   \* dict: session id -> index into sets
    transcript_buffers,   \* dict: session id -> index into lists
    sets,                 \* heap of set objects (sets of websockets)
    hash_order,           \* the websockets in the order of their hashes: the
                          \* order in which the iterator of a set yields them
    lists,                \* heap of list objects (sequences of events)
    clock,                \* asyncio.get_event_loop().time()
    \* DeepgramService
    deepgram_service,     \* FALSE: the singleton is None (no API key)
    dg_connections,       \* DeepgramService.active_connections: session id -> connection
    conn,                 \* provider connection started by a websocket's handler
    sent_audio,           \* chunks written to each provider connection
    \* durable Session rows
    db_transcript,        \* Session.transcript per existing session, as lines
    \* one handler coroutine per websocket
    pc, kind, sid,
    transport,            \* "open", "broken" (the peer is gone) or "closed" (by
                          \* the server): a send succeeds on an open one only
    outbox,               \* the frames the server sent on the websocket
    error,                \* the message of the exception the handler reported
    orm,                  \* the handler's loaded Session object: its transcript
    transcript,           \* handle_transcript_stream's local: a list reference
    frames,               \* ping, audio and other frames the clients sent so far
    \* on_transcript coroutines, in the order they were scheduled
    tasks,
    commitq,              \* per AsyncSession: tasks whose commit is in flight
    \* history variables (observation only)
    stats,
    snapshot              \* the value transcript referred to when it was obtained

hubvars == <<active_connections, transcript_buffers, sets, lists>>
bridgevars == <<dg_connections, conn, sent_audio>>
sockvars == <<pc, kind, sid, transport, outbox, error, orm, transcript, frames>>
vars == <<active_connections, transcript_buffers, sets, lists, hash_order, clock,
          deepgram_service, dg_connections, conn, sent_audio, db_transcript,
          pc, kind, sid, transport, outbox, error, orm, transcript, frames,
          tasks, commitq, stats, snapshot>>

\* --------------------------------------------------------------- dicts
None == "None"
Put(d, k, v) == [x \in DOMAIN d \cup {k} |-> IF x = k THEN v ELSE d[x]]
Del(d, k) == [x \in DOMAIN d \ {k} |-> d[x]]
EmptyDict == [x \in {} |-> 0]

\* ------------------------------------------------------ ConnectionManager
\* The manager's state as one value, so that its methods compose.
Hub == [ac |-> active_connections, tb |-> transcript_buffers,
        sets |-> sets, lists |-> lists]

\* the registered websockets of a session (empty when it has no set)
Members(H, session_id) ==
    IF session_id \in DOMAIN H.ac THEN H.sets[H.ac[session_id]] ELSE {}

\* connect, after websocket.accept() returned
connect(H, websocket, session_id) ==
    LET H1 == IF session_id \notin DOMAIN H.ac
              THEN [ac |-> Put(H.ac, session_id, Len(H.sets) + 1),
                    tb |-> Put(H.tb, session_id, Len(H.lists) + 1),
                    sets |-> Append(H.sets, {}),
                    lists |-> Append(H.lists, <<>>)]
              ELSE H
    IN [H1 EXCEPT !.sets[H1.ac[session_id]] = @ \cup {websocket}]

disconnect_nocleanup(H, websocket, session_id) ==
    IF session_id \in DOMAIN H.ac
    THEN [H EXCEPT !.sets[H.ac[session_id]] = @ \ {websocket}]
    ELSE H

disconnect_eager(H, websocket, session_id) ==
    IF session_id \in DOMAIN H.ac
    THEN LET H1 == [H EXCEPT !.sets[H.ac[session_id]] = @ \ {websocket}]
         IN IF websocket \notin H.sets[H.ac[session_id]]
               \/ H1.sets[H.ac[session_id]] = {}
            THEN [H1 EXCEPT !.ac = Del(H.ac, session_id),
                            !.tb = Del(H.tb, session_id)]
            ELSE H1
    ELSE H

disconnect(H, websocket, session_id) ==
    IF session_id \in DOMAIN H.ac
    THEN LET H1 == [H EXCEPT !.sets[H.ac[session_id]] = @ \ {websocket}]
         IN IF H1.sets[H.ac[session_id]] = {}
            THEN [H1 EXCEPT !.ac = Del(H.ac, session_id),
                            !.tb = Del(H.tb, session_id)]
            ELSE H1
    ELSE H

disconnect_none(H, websockets, session_id) == H

\* disconnect for each websocket of a set (the order does not matter)
RECURSIVE disconnect_all(_, _, _)
disconnect_all(H, websockets, session_id) ==
    IF websockets = {} THEN H
    ELSE LET w == CHOOSE x \in websockets : TRUE
         IN disconnect_all(disconnect(H, w, session_id), websockets \ {w}, session_id)

Event(text, is_final, timestamp) ==
    [text |-> text, is_final |-> is_final, timestamp |-> timestamp]

add_to_transcript_replace(H, session_id, text, is_final, timestamp) ==
    [tb |-> Put(H.tb, session_id, Len(H.lists) + 1),
     lists |-> Append(H.lists, <<Event(text, is_final, timestamp)>>),
     ac |-> H.ac, sets |-> H.sets]

add_to_transcript(H, session_id, text, is_final, timestamp) ==
    LET H1 == IF session_id \notin DOMAIN H.tb
              THEN [H EXCEPT !.tb = Put(H.tb, session_id, Len(H.lists) + 1),
                             !.lists = Append(H.lists, <<>>)]
              ELSE H
    IN [H1 EXCEPT !.lists[H1.tb[session_id]] =
                      Append(@, Event(text, is_final, timestamp))]

\* A list reference: an index of the heap, or 0 for the fresh [] that
\* dict.get's default creates.
FreshList == 0
get_transcript_empty(H, session_id) == FreshList

get_transcript(H, session_id) ==
    IF session_id \in DOMAIN H.tb THEN H.tb[session_id] ELSE FreshList

Deref(H, ref) == IF ref = FreshList THEN <<>> ELSE H.lists[ref]


\* ------------------------------------------------------------ websockets
\* The frames the server sends, in one record shape.
Msg(type, text, is_final, history) ==
    [type |-> type, text |-> text, is_final |-> is_final, history |-> history]
HistoryMsg(events) == Msg("history", "", FALSE, events)
TranscriptMsg(text, is_final) == Msg("transcript", text, is_final, <<>>)
PongMsg == Msg("pong", "", FALSE, <<>>)
ErrorMsg(detail) == Msg("error", detail, FALSE, <<>>)

\* websocket.send_json: delivered when the transport is open, raises otherwise
SendOk(tr, websocket) == tr[websocket] = "open"
Send(out, tr, websocket, msg) ==
    IF SendOk(tr, websocket)
    THEN [out EXCEPT ![websocket] = Append(@, msg)]
    ELSE out
\* websocket.close()
Close(tr, websocket) == [tr EXCEPT ![websocket] = "closed"]

\* -------------------------------------------------------- DeepgramService
Bridge == [dg |-> dg_connections, conn |-> conn, sent |-> sent_audio]

\* create_live_transcription; connection is the new LiveClient, started
\* says whether connection.start(options) succeeded
create_live_transcription(B, session_id, connection, started) ==
    IF started
    THEN [B |-> [B EXCEPT !.dg = Put(B.dg, session_id, connection),
                          !.conn[connection] = "open"],
          raised |-> None]
    ELSE [B |-> B, raised |-> "Failed to start Deepgram connection"]

send_audio_drop(B, session_id) ==
    IF session_id \in DOMAIN B.dg
    THEN [B |-> [B EXCEPT !.sent[B.dg[session_id]] = @ + 1], raised |-> None]
    ELSE [B |-> B, raised |-> None]

send_audio(B, session_id) ==
    IF session_id \in DOMAIN B.dg
    THEN [B |-> [B EXCEPT !.sent[B.dg[session_id]] = @ + 1], raised |-> None]
    ELSE [B |-> B, raised |-> "No active connection"]

close_connection_keep(B, session_id) ==
    IF session_id \in DOMAIN B.dg
    THEN [B EXCEPT !.conn[B.dg[session_id]] = "finished"]
    ELSE B

close_connection_nofinish(B, session_id) ==
    IF session_id \in DOMAIN B.dg
    THEN [B EXCEPT !.dg = Del(B.dg, session_id)]
    ELSE B

close_connection(B, session_id) ==
    IF session_id \in DOMAIN B.dg
    THEN [B EXCEPT !.conn[B.dg[session_id]] = "finished",
                   !.dg = Del(B.dg, session_id)]
    ELSE B

\* the Close event handler of a connection of session_id
on_close(B, session_id, connection) ==
    [B EXCEPT !.conn[connection] = "closed",
              !.dg = IF session_id \in DOMAIN B.dg THEN Del(B.dg, session_id) ELSE @]

\* --------------------------------------------------- history variables
\* disconnect calls for websockets ws of session_id in hub state H: those
\* that remove a member, and those that find no member
Matching(H, ws, session_id) == Cardinality(ws \cap Members(H, session_id))
StatConnect(st, session_id) ==
    [st EXCEPT !.connects[session_id] = @ + 1]
StatDisconnect(st, H, ws, session_id) ==
    [st EXCEPT !.disconnects[session_id] = @ + Matching(H, ws, session_id)]
StatClose(st, B, session_id) ==
    IF session_id \in DOMAIN B.dg
    THEN [st EXCEPT !.finishes[B.dg[session_id]] = @ + 1]
    ELSE st

\* -------------------------------------------------------------- Init
\* The hashes of the websocket objects are whatever the allocator makes
\* them; the websockets no client opens are put last.
Orders ==
    {[i \in WebSockets |-> IF i \in Clients THEN f[i] ELSE i] : f \in Permutations(Clients)}

Init ==
    /\ active_connections = EmptyDict
    /\ transcript_buffers = EmptyDict
    /\ sets = <<>>
    /\ lists = <<>>
    /\ hash_order \in Orders
    /\ clock = 0
    /\ deepgram_service \in BOOLEAN
    /\ dg_connections = EmptyDict
    /\ conn = [w \in WebSockets |-> "none"]
    /\ sent_audio = [w \in WebSockets |-> 0]
    /\ db_transcript = [s \in ExistingSessions |-> <<>>]
    /\ pc = [w \in WebSockets |-> "idle"]
    /\ kind = [w \in WebSockets |-> None]
    /\ sid = [w \in WebSockets |-> None]
    /\ transport = [w \in WebSockets |-> "open"]
    /\ outbox = [w \in WebSockets |-> <<>>]
    /\ error = [w \in WebSockets |-> None]
    /\ orm = [w \in WebSockets |-> <<>>]
    /\ transcript = [w \in WebSockets |-> FreshList]
    /\ frames = 0
    /\ tasks = <<>>
    /\ commitq = [w \in WebSockets |-> <<>>]
    /\ stats = [connects |-> [s \in SessionIds |-> 0],
                disconnects |-> [s \in SessionIds |-> 0],
                finishes |-> [w \in WebSockets |-> 0]]
    /\ snapshot = [w \in WebSockets |-> <<>>]

SetHub(H) ==
    /\ active_connections' = H.ac
    /\ transcript_buffers' = H.tb
    /\ sets' = H.sets
    /\ lists' = H.lists
SetBridge(B) ==
    /\ dg_connections' = B.dg
    /\ conn' = B.conn
    /\ sent_audio' = B.sent


\* ------------------------------------------------------ on_transcript
\* A coroutine on_transcript(data) of the audio handler of websocket owner.
\* it_set and it_used are the set iterator of broadcast's for loop: the set
\* object it walks and the size that set had when the loop began (CPython
\* raises "Set changed size during iteration" when they differ at a next()).
\* at is the websocket whose send_json the coroutine awaits, which is also
\* the iterator's position; behind holds the coroutines that awaited a send
\* on that websocket before this one did (a transport serves its writers in
\* the order they came).
\* targets, delivered, interfered, bcast, after, appended and outcome only
\* record what happened; appended counts the times the coroutine appended
\* its text to Session.transcript and called db.commit().
NewTask(owner, text, is_final) ==
    [owner |-> owner, text |-> text, is_final |-> is_final, pc |-> "scheduled",
     it_set |-> 0, it_used |-> 0, at |-> 0, behind |-> {}, disconnected |-> {},
     value |-> <<>>,
     targets |-> {}, delivered |-> {}, interfered |-> FALSE, bcast |-> "none",
     after |-> {}, appended |-> 0, outcome |-> None]

\* on_message of a connection: an empty transcript schedules nothing
on_message(tk, owner, text, is_final) ==
    IF text # "" THEN Append(tk, NewTask(owner, text, is_final)) ELSE tk

\* The iterator of a set yields its members in the order of their hashes.
Rank(x) == CHOOSE i \in DOMAIN hash_order : hash_order[i] = x
First(S) == CHOOSE x \in S : \A y \in S : Rank(x) <= Rank(y)
\* what is left of S for an iterator that yielded x last
After(S, x) == {y \in S : Rank(y) > Rank(x)}

\* lines 126-130: persist a final transcript.  busy: another commit of the
\* same AsyncSession is in flight; refused: the session then refuses the
\* concurrent commit, which raises into on_transcript's except.
Persist(t, busy, refused) ==
    IF ~t.is_final THEN "skip"
    ELSE IF busy /\ refused THEN "raise"
    ELSE "commit"

\* the for loop of broadcast is over: remove the failed websockets, return to
\* on_transcript and persist
CbLoopEnd(e, t, H, refused) ==
    LET s == sid[t.owner]
        H2 == disconnect_all(H, t.disconnected, s)
        how == Persist(t, commitq[t.owner] # <<>>, refused)
        line == IF how = "skip" THEN orm[t.owner] ELSE Append(orm[t.owner], t.text)
        t2 == [t EXCEPT !.bcast = "returned",
                        !.after = Members(H2, s),
                        !.interfered = @ \/ (t.it_set # 0 /\ H.sets[t.it_set] # t.targets),
                        !.appended = IF how = "skip" THEN 0 ELSE 1,
                        !.value = line,
                        !.it_set = 0, !.it_used = 0, !.at = 0, !.behind = {},
                        !.pc = IF how = "commit" THEN "commit" ELSE "done",
                        !.outcome = CASE how = "skip" -> "ok"
                                      [] how = "raise" -> "refused"
                                      [] OTHER -> None]
    IN /\ SetHub(H2)
       /\ stats' = StatDisconnect(stats, H, t.disconnected, s)
       /\ orm' = [orm EXCEPT ![t.owner] = line]
       /\ commitq' = IF how = "commit"
                     THEN [commitq EXCEPT ![t.owner] = Append(@, e)]
                     ELSE commitq
       /\ tasks' = [tasks EXCEPT ![e] = t2]
       /\ UNCHANGED outbox

\* one turn of the for loop: send the message to websocket x
CbVisit(e, t, H, x) ==
    LET ok == SendOk(transport, x)
        t2 == [t EXCEPT !.at = x,
                        !.behind = {f \in DOMAIN tasks \ {e} :
                                       tasks[f].pc = "sending" /\ tasks[f].at = x},
                        !.delivered = IF ok THEN @ \cup {x} ELSE @,
                        !.disconnected = IF ok THEN @ ELSE @ \cup {x},
                        !.interfered = @ \/ H.sets[t.it_set] # t.targets]
    IN /\ SetHub(H)
       /\ outbox' = Send(outbox, transport, x,
                         TranscriptMsg(t.text, t.is_final))
       /\ tasks' = [tasks EXCEPT ![e] = t2]
       /\ UNCHANGED <<stats, orm, commitq>>

\* the event loop starts the scheduled coroutines in the order they were
\* scheduled: add to the buffer, enter broadcast, first send
CbStart(e) ==
    /\ e \in DOMAIN tasks
    /\ tasks[e].pc = "scheduled"
    /\ \A j \in 1..(e - 1) : tasks[j].pc # "scheduled"
    /\ LET t == tasks[e]
           s == sid[t.owner]
           H1 == add_to_transcript(Hub, s, t.text, t.is_final, clock)
       IN IF s \in DOMAIN H1.ac
          THEN LET t1 == [t EXCEPT !.pc = "sending", !.bcast = "running",
                                   !.it_set = H1.ac[s],
                                   !.it_used = Cardinality(Members(H1, s)),
                                   !.targets = Members(H1, s)]
               IN CbVisit(e, t1, H1, First(Members(H1, s)))
          ELSE \E refused \in BOOLEAN : CbLoopEnd(e, t, H1, refused)
    /\ clock' = clock + 1
    /\ UNCHANGED <<deepgram_service, hash_order, bridgevars, db_transcript, pc, kind, sid,
                   transport, error, transcript, frames, snapshot>>

\* the coroutine resumes after a send: next() of the set iterator
CbResume(e) ==
    /\ e \in DOMAIN tasks
    /\ tasks[e].pc = "sending"
    /\ \A f \in tasks[e].behind :
          ~(tasks[f].pc = "sending" /\ tasks[f].at = tasks[e].at)
    /\ LET t == tasks[e]
           now == sets[t.it_set]
           left == After(now, t.at)
       IN IF Cardinality(now) # t.it_used
          THEN \* RuntimeError, caught by on_transcript's except
               /\ tasks' = [tasks EXCEPT ![e] =
                              [t EXCEPT !.pc = "done", !.bcast = "raised",
                                        !.it_set = 0, !.it_used = 0,
                                        !.at = 0, !.behind = {},
                                        !.interfered = TRUE,
                                        !.outcome = "error"]]
               /\ UNCHANGED <<hubvars, outbox, stats, orm, commitq>>
          ELSE IF left # {}
               THEN CbVisit(e, t, Hub, First(left))
               ELSE \E refused \in BOOLEAN : CbLoopEnd(e, t, Hub, refused)
    /\ UNCHANGED <<clock, deepgram_service, hash_order, bridgevars, db_transcript, pc, kind,
                   sid, transport, error, transcript, frames, snapshot>>

\* await db.commit() returns: the UPDATE wrote the value flushed at the call
CbCommit(e) ==
    /\ e \in DOMAIN tasks
    /\ tasks[e].pc = "commit"
    /\ commitq[tasks[e].owner] # <<>>
    /\ Head(commitq[tasks[e].owner]) = e
    /\ db_transcript' = [db_transcript EXCEPT ![sid[tasks[e].owner]] = tasks[e].value]
    /\ tasks' = [tasks EXCEPT ![e].pc = "done", ![e].outcome = "ok"]
    /\ commitq' = [commitq EXCEPT ![tasks[e].owner] = Tail(@)]
    /\ UNCHANGED <<hubvars, clock, deepgram_service, hash_order, bridgevars, sockvars,
                   stats, snapshot>>

CbCommitFails_disconnect(e) ==
    /\ e \in DOMAIN tasks
    /\ tasks[e].pc = "commit"
    /\ commitq[tasks[e].owner] # <<>>
    /\ Head(commitq[tasks[e].owner]) = e
    /\ tasks' = [tasks EXCEPT ![e].pc = "done", ![e].outcome = "error"]
    /\ commitq' = [commitq EXCEPT ![tasks[e].owner] = Tail(@)]
    /\ SetHub(disconnect(Hub, tasks[e].owner, sid[tasks[e].owner]))
    /\ UNCHANGED <<clock, deepgram_service, hash_order, bridgevars, sockvars,
                   db_transcript, stats, snapshot>>

\* await db.commit() raises: caught by on_transcript's except
CbCommitFails(e) ==
    /\ e \in DOMAIN tasks
    /\ tasks[e].pc = "commit"
    /\ commitq[tasks[e].owner] # <<>>
    /\ Head(commitq[tasks[e].owner]) = e
    /\ tasks' = [tasks EXCEPT ![e].pc = "done", ![e].outcome = "error"]
    /\ commitq' = [commitq EXCEPT ![tasks[e].owner] = Tail(@)]
    /\ UNCHANGED <<hubvars, clock, deepgram_service, hash_order, bridgevars, sockvars,
                   db_transcript, stats, snapshot>>


\* ------------------------------------------------- the provider's thread
\* A connection goes "open" (started), "errored" (the provider reported an
\* error; it streams on), "dropped" (the provider closed it; its Close event
\* is not delivered yet), "finished" (finish() was called; likewise) and
\* "closed" (the Close event was delivered).
Streaming(c) == conn[c] \in {"open", "errored"}

\* A recognition result arrives on an open connection: on_message
ResultUpTo(c, limit, texts) ==
    /\ Streaming(c)
    /\ Len(tasks) < limit
    /\ \E text \in texts, is_final \in BOOLEAN :
          tasks' = on_message(tasks, c, text, is_final)
    /\ UNCHANGED <<hubvars, clock, deepgram_service, hash_order, bridgevars, db_transcript,
                   sockvars, commitq, stats, snapshot>>

ProviderResult(c) == ResultUpTo(c, MaxEvents, Texts)
StreamResult(c) == ResultUpTo(c, MaxStreamEvents, Texts)
SessionResult(c) == ResultUpTo(c, MaxSessionEvents, SessionTexts)
StoreResult(c) == ResultUpTo(c, MaxStoreEvents, StoreTexts)

\* The Error event of a connection: on_error_event prints it and calls
\* on_error, which handle_audio_websocket does not pass (None)
ProviderError(c) ==
    /\ conn[c] = "open"
    /\ conn' = [conn EXCEPT ![c] = "errored"]
    /\ UNCHANGED <<hubvars, clock, deepgram_service, hash_order, dg_connections,
                   sent_audio, db_transcript, sockvars, tasks, commitq, stats,
                   snapshot>>

\* The provider closes a connection: the handle is closed at once, the
\* Close event reaches on_close later, from the provider's thread
ProviderDrop(c) ==
    /\ Streaming(c)
    /\ conn' = [conn EXCEPT ![c] = "dropped"]
    /\ UNCHANGED <<hubvars, clock, deepgram_service, hash_order, dg_connections,
                   sent_audio, db_transcript, sockvars, tasks, commitq, stats,
                   snapshot>>

\* The Close event of a connection (closed by the provider, or after finish)
ProviderClose(c) ==
    /\ conn[c] \in {"dropped", "finished"}
    /\ SetBridge(on_close(Bridge, sid[c], c))
    /\ UNCHANGED <<hubvars, clock, deepgram_service, hash_order, db_transcript, sockvars,
                   tasks, commitq, stats, snapshot>>

\* websockets are numbered in the order the server accepts them
Accepted(w) == \A v \in 1..(w - 1) : pc[v] # "idle"

\* ------------------------------------------------ handle_audio_websocket
\* line 94: manager.connect; suspends in db.execute
AudioAccept(w, s) ==
    /\ pc[w] = "idle"
    /\ Accepted(w)
    /\ kind' = [kind EXCEPT ![w] = "audio"]
    /\ sid' = [sid EXCEPT ![w] = s]
    /\ pc' = [pc EXCEPT ![w] = "verify"]
    /\ SetHub(connect(Hub, w, s))
    /\ stats' = StatConnect(stats, s)
    /\ UNCHANGED <<clock, deepgram_service, hash_order, bridgevars, db_transcript, transport,
                   outbox, error, orm, transcript, frames, tasks, commitq,
                   snapshot>>

\* the handler ends reporting exc to the client: send_json(error), close()
Report(w, exc) ==
    /\ outbox' = Send(outbox, transport, w, ErrorMsg(exc))
    /\ transport' = Close(transport, w)
    /\ error' = [error EXCEPT ![w] = exc]
    /\ pc' = [pc EXCEPT ![w] = "done"]

\* lines 97-145: the session row, then the provider connection
AudioVerify(w) ==
    /\ pc[w] = "verify"
    /\ IF sid[w] \notin ExistingSessions
       THEN /\ Report(w, "Session not found")
            /\ UNCHANGED <<bridgevars, orm, stats>>
       ELSE /\ orm' = [orm EXCEPT ![w] = db_transcript[sid[w]]]
            /\ IF ~deepgram_service
               THEN /\ Report(w, "Deepgram service not available")
                    /\ UNCHANGED <<bridgevars, stats>>
               ELSE \E started \in BOOLEAN :
                      LET r == create_live_transcription(Bridge, sid[w], w, started)
                      IN /\ SetBridge(r.B)
                         /\ IF r.raised = None
                            THEN /\ pc' = [pc EXCEPT ![w] = "loop"]
                                 /\ UNCHANGED <<outbox, transport, error, stats>>
                            ELSE /\ Report(w, r.raised)
                                 /\ UNCHANGED stats
    /\ UNCHANGED <<hubvars, clock, deepgram_service, hash_order, db_transcript, kind, sid,
                   transcript, frames, tasks, commitq, snapshot>>

\* lines 171-180: the finally clause (disconnect, close_connection) and, for
\* an exception other than WebSocketDisconnect, the outer except clause
AudioExit(w, exc) ==
    /\ SetHub(disconnect(Hub, w, sid[w]))
    /\ SetBridge(close_connection(Bridge, sid[w]))
    /\ stats' = StatClose(StatDisconnect(stats, Hub, {w}, sid[w]), Bridge, sid[w])
    /\ IF exc = None
       THEN /\ pc' = [pc EXCEPT ![w] = "done"]
            /\ transport' = Close(transport, w)
            /\ UNCHANGED <<outbox, error>>
       ELSE Report(w, exc)
    /\ UNCHANGED <<clock, deepgram_service, hash_order, db_transcript, kind, sid, orm,
                   transcript, tasks, commitq, snapshot>>

\* a binary frame: send_audio
AudioRecvBytes(w) ==
    /\ pc[w] = "loop"
    /\ transport[w] = "open"
    /\ frames < MaxFrames
    /\ frames' = frames + 1
    /\ LET r == send_audio(Bridge, sid[w])
       IN IF r.raised = None
          THEN /\ SetBridge(r.B)
               /\ UNCHANGED <<hubvars, clock, deepgram_service, hash_order, db_transcript, pc,
                              kind, sid, transport, outbox, error, orm, transcript,
                              tasks, commitq, stats, snapshot>>
          ELSE AudioExit(w, r.raised)

\* {"type": "ping"}
AudioRecvPing(w) ==
    /\ pc[w] = "loop"
    /\ transport[w] = "open"
    /\ frames < MaxFrames
    /\ frames' = frames + 1
    /\ outbox' = Send(outbox, transport, w, PongMsg)
    /\ UNCHANGED <<hubvars, clock, deepgram_service, hash_order, bridgevars, db_transcript,
                   pc, kind, sid, transport, error, orm, transcript, tasks,
                   commitq, stats, snapshot>>

\* a control message of another type
AudioRecvOther(w) ==
    /\ pc[w] = "loop"
    /\ transport[w] = "open"
    /\ frames < MaxFrames
    /\ frames' = frames + 1
    /\ UNCHANGED <<hubvars, clock, deepgram_service, hash_order, bridgevars, db_transcript,
                   pc, kind, sid, transport, outbox, error, orm, transcript, tasks,
                   commitq, stats, snapshot>>

\* {"type": "stop"}: break
AudioRecvStop(w) ==
    /\ pc[w] = "loop"
    /\ transport[w] = "open"
    /\ AudioExit(w, None)
    /\ UNCHANGED frames

\* a text frame that is not JSON: json.loads raises
AudioRecvBad(w) ==
    /\ pc[w] = "loop"
    /\ transport[w] = "open"
    /\ AudioExit(w, "Invalid JSON")
    /\ UNCHANGED frames

\* the peer is gone: receive() returns the disconnect message, which the loop
\* ignores, and the next receive() raises RuntimeError
AudioRecvDisconnect(w) ==
    /\ pc[w] = "loop"
    /\ transport[w] = "broken"
    /\ AudioExit(w, "Cannot call receive once a disconnect message has been received")
    /\ UNCHANGED frames

\* ---------------------------------------------- handle_transcript_stream
\* lines 191-199: connect, get_transcript, send the history
ObserverJoin(w, s) ==
    /\ pc[w] = "idle"
    /\ Accepted(w)
    /\ kind' = [kind EXCEPT ![w] = "observer"]
    /\ sid' = [sid EXCEPT ![w] = s]
    /\ pc' = [pc EXCEPT ![w] = "stream"]
    /\ LET H1 == connect(Hub, w, s)
           ref == get_transcript(H1, s)
       IN /\ SetHub(H1)
          /\ transcript' = [transcript EXCEPT ![w] = ref]
          /\ snapshot' = [snapshot EXCEPT ![w] = Deref(H1, ref)]
          /\ outbox' = Send(outbox, transport, w, HistoryMsg(Deref(H1, ref)))
    /\ stats' = StatConnect(stats, s)
    /\ UNCHANGED <<clock, deepgram_service, hash_order, bridgevars, db_transcript, transport,
                   error, orm, frames, tasks, commitq>>

\* the finally clause: manager.disconnect
ObserverExit(w) ==
    /\ pc' = [pc EXCEPT ![w] = "done"]
    /\ transport' = Close(transport, w)
    /\ SetHub(disconnect(Hub, w, sid[w]))
    /\ stats' = StatDisconnect(stats, Hub, {w}, sid[w])
    /\ transcript' = [transcript EXCEPT ![w] = FreshList]
    /\ snapshot' = [snapshot EXCEPT ![w] = <<>>]
    /\ UNCHANGED <<clock, deepgram_service, hash_order, bridgevars, db_transcript, kind, sid,
                   outbox, error, orm, frames, tasks, commitq>>

\* {"type": "ping"}
ObserverRecvPing(w) ==
    /\ pc[w] = "stream"
    /\ transport[w] = "open"
    /\ frames < MaxFrames
    /\ frames' = frames + 1
    /\ outbox' = Send(outbox, transport, w, PongMsg)
    /\ UNCHANGED <<hubvars, clock, deepgram_service, hash_order, bridgevars, db_transcript,
                   pc, kind, sid, transport, error, orm, transcript, tasks,
                   commitq, stats, snapshot>>

\* a JSON message of another type
ObserverRecvOther(w) ==
    /\ pc[w] = "stream"
    /\ transport[w] = "open"
    /\ frames < MaxFrames
    /\ frames' = frames + 1
    /\ UNCHANGED <<hubvars, clock, deepgram_service, hash_order, bridgevars, db_transcript,
                   pc, kind, sid, transport, outbox, error, orm, transcript, tasks,
                   commitq, stats, snapshot>>

\* a frame that is no JSON text: the exception leaves the handler
ObserverRecvBad(w) ==
    /\ pc[w] = "stream"
    /\ transport[w] = "open"
    /\ ObserverExit(w)
    /\ UNCHANGED frames

\* receive_text raises WebSocketDisconnect: break
ObserverRecvDisconnect(w) ==
    /\ pc[w] = "stream"
    /\ transport[w] = "broken"
    /\ ObserverExit(w)
    /\ UNCHANGED frames

\* ------------------------------------------------------------ the peers
\* the client's connection drops; its handler learns it at its next receive
ClientDrop(w) ==
    /\ pc[w] \in {"verify", "loop", "stream"}
    /\ transport[w] = "open"
    /\ transport' = [transport EXCEPT ![w] = "broken"]
    /\ UNCHANGED <<hubvars, clock, deepgram_service, hash_order, bridgevars, db_transcript,
                   pc, kind, sid, outbox, error, orm, transcript, frames, tasks,
                   commitq, stats, snapshot>>

\* ---------------------------------------------------------------- Spec
Next ==
    \/ \E w \in Clients, s \in SessionIds : AudioAccept(w, s)
    \/ \E w \in WebSockets : AudioVerify(w)
    \/ \E w \in WebSockets : AudioRecvBytes(w)
    \/ \E w \in WebSockets : AudioRecvPing(w)
    \/ \E w \in WebSockets : AudioRecvOther(w)
    \/ \E w \in WebSockets : AudioRecvStop(w)
    \/ \E w \in WebSockets : AudioRecvBad(w)
    \/ \E w \in WebSockets : AudioRecvDisconnect(w)
    \/ \E w \in Clients, s \in SessionIds : ObserverJoin(w, s)
    \/ \E w \in WebSockets : ObserverRecvPing(w)
    \/ \E w \in WebSockets : ObserverRecvOther(w)
    \/ \E w \in WebSockets : ObserverRecvBad(w)
    \/ \E w \in WebSockets : ObserverRecvDisconnect(w)
    \/ \E w \in WebSockets : ClientDrop(w)
    \/ \E c \in WebSockets : ProviderResult(c)
    \/ \E c \in WebSockets : ProviderError(c)
    \/ \E c \in WebSockets : ProviderDrop(c)
    \/ \E c \in WebSockets : ProviderClose(c)
    \/ \E e \in DOMAIN tasks : CbStart(e)
    \/ \E e \in DOMAIN tasks : CbResume(e)
    \/ \E e \in DOMAIN tasks : CbCommit(e)
    \/ \E e \in DOMAIN tasks : CbCommitFails(e)

Spec == Init /\ [][Next]_vars

\* The behaviours in which no peer vanishes and the clients send no ping,
\* audio or unknown frame, with up to MaxStreamEvents provider results.
NextStream ==
    \/ \E w \in Clients, s \in SessionIds : AudioAccept(w, s)
    \/ \E w \in WebSockets : AudioVerify(w)
    \/ \E w \in WebSockets : AudioRecvStop(w)
    \/ \E w \in WebSockets : AudioRecvBad(w)
    \/ \E w \in Clients, s \in SessionIds : ObserverJoin(w, s)
    \/ \E w \in WebSockets : ObserverRecvBad(w)
    \/ \E c \in WebSockets : StreamResult(c)
    \/ \E c \in WebSockets : ProviderDrop(c)
    \/ \E c \in WebSockets : ProviderClose(c)
    \/ \E e \in DOMAIN tasks : CbStart(e)
    \/ \E e \in DOMAIN tasks : CbResume(e)
    \/ \E e \in DOMAIN tasks : CbCommit(e)
    \/ \E e \in DOMAIN tasks : CbCommitFails(e)

SpecStream == Init /\ [][NextStream]_vars

\* One live session: websocket 1 streams the audio of "s1", the others
\* observe it; nobody leaves, and the provider delivers up to
\* MaxSessionEvents results, blank ones among them.
NextSession ==
    \/ AudioAccept(1, "s1")
    \/ AudioVerify(1)
    \/ \E w \in WebSockets \ {1} : ObserverJoin(w, "s1")
    \/ SessionResult(1)
    \/ ProviderError(1)
    \/ \E e \in DOMAIN tasks : CbStart(e)
    \/ \E e \in DOMAIN tasks : CbResume(e)
    \/ \E e \in DOMAIN tasks : CbCommit(e)
    \/ \E e \in DOMAIN tasks : CbCommitFails(e)

SpecSession == Init /\ [][NextSession]_vars

\* Audio sockets only, all on the session that exists, and results whose
\* texts differ: what the database stores for the session.
NextStore ==
    \/ \E w \in Clients : AudioAccept(w, "s1")
    \/ \E w \in WebSockets : AudioVerify(w)
    \/ \E w \in WebSockets : AudioRecvStop(w)
    \/ \E c \in WebSockets : StoreResult(c)
    \/ \E e \in DOMAIN tasks : CbStart(e)
    \/ \E e \in DOMAIN tasks : CbResume(e)
    \/ \E e \in DOMAIN tasks : CbCommit(e)
    \/ \E e \in DOMAIN tasks : CbCommitFails(e)

SpecStore == Init /\ [][NextStore]_vars


\* ------------------------------------------------------------- properties
\* the buffer of a session as get_transcript's caller reads it
Buffer(H, session_id) == Deref(H, get_transcript(H, session_id))
Size(session_id) == Cardinality(Members(Hub, session_id))
\* the sessions for which add_to_transcript has run
Recorded ==
    {sid[tasks[e].owner] : e \in {x \in DOMAIN tasks : tasks[x].pc # "scheduled"}}
\* a handler leaves its receive loop: its finally clause calls disconnect
HandlerExit(w) == pc[w] \in {"loop", "stream"} /\ pc'[w] = "done"
\* broadcast's second loop runs: it calls disconnect for the failed sends
BroadcastRemoves(e) ==
    /\ e \in DOMAIN tasks
    /\ tasks[e].pc = "sending"
    /\ tasks'[e].bcast = "returned"
    /\ tasks'[e].disconnected # {}

\* C1: after any sequence of connects and disconnects on a session, the size
\* of its connection set is the number of connects minus the number of
\* disconnects that removed a member; and as long as only connects and
\* disconnects ran for the session, the size is zero exactly when the hub
\* holds neither a set nor a buffer for it.
C1_SizeCountsConnects ==
    \A s \in SessionIds :
        /\ Size(s) = stats.connects[s] - stats.disconnects[s]
        /\ s \notin Recorded =>
              (Size(s) = 0 <=> (s \notin DOMAIN active_connections
                                /\ s \notin DOMAIN transcript_buffers))
        /\ (s \in DOMAIN active_connections) => Size(s) > 0

\* two websockets joined one session, both left, and the entries are gone
C1_Witness ==
    \E s \in SessionIds :
        /\ stats.connects[s] = 2
        /\ stats.disconnects[s] = 2
        /\ s \notin DOMAIN active_connections

\* C2: a disconnect of a websocket that is not a member of the session's set
\* (a second disconnect, or a session without a set) changes nothing in the
\* hub; a disconnect that removes the last member deletes the session's set
\* and buffer.
C2_DisconnectIdempotent ==
    [][/\ \A w \in WebSockets :
             (HandlerExit(w) /\ w \notin Members(Hub, sid[w]))
                 => UNCHANGED hubvars
       /\ \A e \in DOMAIN tasks :
             (BroadcastRemoves(e)
              /\ tasks'[e].disconnected \cap Members(Hub, sid[tasks[e].owner]) = {})
                 => UNCHANGED hubvars
       /\ \A w \in WebSockets :
             (HandlerExit(w) /\ Members(Hub, sid[w]) = {w})
                 => /\ sid[w] \notin DOMAIN active_connections'
                    /\ sid[w] \notin DOMAIN transcript_buffers'
      ]_vars

\* a websocket that a broadcast removed after a failed send, and whose
\* handler then ran its own disconnect, while another member stays
C2_Witness ==
    \E w \in WebSockets, e \in DOMAIN tasks :
        /\ pc[w] = "done"
        /\ tasks[e].bcast = "returned"
        /\ w \in tasks[e].disconnected
        /\ Members(Hub, sid[w]) # {}

\* C3: a broadcast to N registered websockets of which M < N fail on send,
\* with no other coroutine changing the set meanwhile, delivers the message
\* to the N - M others and leaves exactly those registered when it returns.
C3_BroadcastSurvivesFailures ==
    \A e \in DOMAIN tasks :
        LET t == tasks[e]
            rest == t.targets \ t.disconnected
        IN (t.bcast = "returned" /\ ~t.interfered /\ rest # {})
           => /\ t.delivered = rest
              /\ t.after = rest
              /\ \A w \in rest :
                    \E i \in DOMAIN outbox[w] :
                        outbox[w][i] = TranscriptMsg(t.text, t.is_final)

\* a broadcast to two websockets, one of them failed
C3_Witness ==
    \E e \in DOMAIN tasks :
        /\ tasks[e].bcast = "returned"
        /\ ~tasks[e].interfered
        /\ Cardinality(tasks[e].targets) = 2
        /\ Cardinality(tasks[e].disconnected) = 1

\* C4: every final transcript event the provider delivers results in exactly
\* one append of its text to the session's durable transcript (on_transcript
\* reaches lines 128-130 once) and every interim event in none, whatever
\* connects, disconnects and callbacks run meanwhile.
C4_FinalAppendedOnce ==
    \A e \in DOMAIN tasks :
        tasks[e].pc = "done"
            => tasks[e].appended = (IF tasks[e].is_final THEN 1 ELSE 0)

\* C5: send_audio for a session without a registered provider connection
\* raises "No active connection" and writes no chunk; with one it writes the
\* chunk.  Only connections that were started and neither finished nor
\* reported closed are registered: none before the first start of a
\* session, none after close_connection.
C5_SendAudioNeedsConnection ==
    /\ [](\A s \in DOMAIN dg_connections :
             /\ sid[dg_connections[s]] = s
             /\ conn[dg_connections[s]] \in {"open", "errored", "dropped"})
    /\ [][\A w \in WebSockets :
            /\ AudioRecvBytes(w) =>
                  IF sid[w] \in DOMAIN dg_connections
                  THEN /\ sent_audio'[dg_connections[sid[w]]]
                             = sent_audio[dg_connections[sid[w]]] + 1
                       /\ pc'[w] = "loop"
                  ELSE /\ sent_audio' = sent_audio
                       /\ pc'[w] = "done"
                       /\ error'[w] = "No active connection"
                       /\ outbox'[w] = Append(outbox[w], ErrorMsg("No active connection"))
            /\ (HandlerExit(w) /\ kind[w] = "audio")
                  => sid[w] \notin DOMAIN dg_connections'
         ]_vars

\* an audio handler ended by send_audio's error
C5_Witness ==
    \E w \in WebSockets : error[w] = "No active connection"

\* C6: a start for a session whose provider connection is streaming fails
\* (the handler reports the error and ends) and leaves that connection
\* registered.
C6_DuplicateStartRejected ==
    [][\A w \in WebSockets :
          (/\ pc[w] = "verify" /\ pc'[w] # "verify"
           /\ deepgram_service
           /\ sid[w] \in ExistingSessions
           /\ sid[w] \in DOMAIN dg_connections
           /\ conn[dg_connections[sid[w]]] = "open")
              => /\ pc'[w] = "done"
                 /\ error'[w] # None
                 /\ sid[w] \in DOMAIN dg_connections'
                 /\ dg_connections'[sid[w]] = dg_connections[sid[w]]
      ]_vars

\* C7: the first close_connection of a session finishes the registered
\* connection once and removes it; a close_connection that finds none
\* changes nothing in the bridge; no connection is finished twice.
C7_CloseIdempotent ==
    /\ [](\A c \in WebSockets : stats.finishes[c] <= 1)
    /\ [][\A w \in WebSockets :
            (HandlerExit(w) /\ kind[w] = "audio") =>
                IF sid[w] \in DOMAIN dg_connections
                THEN LET c == dg_connections[sid[w]]
                     IN /\ conn'[c] = "finished"
                        /\ stats'.finishes[c] = stats.finishes[c] + 1
                        /\ sid[w] \notin DOMAIN dg_connections'
                ELSE /\ UNCHANGED bridgevars
                     /\ stats'.finishes = stats.finishes
         ]_vars

\* two audio handlers of one session both ran close_connection
C7_Witness ==
    \E w, v \in WebSockets :
        /\ w # v /\ sid[w] = sid[v]
        /\ conn[w] # "none" /\ conn[v] # "none"
        /\ pc[w] = "done" /\ pc[v] = "done"

\* C8: after add_to_transcript(session, text, is_final), get_transcript
\* returns what it returned before followed by an event with that text and
\* is_final; the events of a buffer are in the order they were recorded.
C8_RecordThenGet ==
    /\ [](\A s \in DOMAIN transcript_buffers :
             \A i, j \in DOMAIN Buffer(Hub, s) :
                 i < j => Buffer(Hub, s)[i].timestamp < Buffer(Hub, s)[j].timestamp)
    /\ [][\A e \in DOMAIN tasks :
            (tasks[e].pc = "scheduled" /\ tasks'[e].pc # "scheduled") =>
                LET s == sid[tasks[e].owner]
                    before == Buffer(Hub, s)
                    after == Buffer(Hub, s)'
                IN /\ Len(after) = Len(before) + 1
                   /\ SubSeq(after, 1, Len(before)) = before
                   /\ after[Len(after)].text = tasks[e].text
                   /\ after[Len(after)].is_final = tasks[e].is_final
         ]_vars

\* a buffer that holds two events
C8_Witness ==
    \E s \in DOMAIN transcript_buffers : Len(Buffer(Hub, s)) = 2

\* C9: the sequence get_transcript returned is a snapshot: what the caller
\* holds is not changed by a later add_to_transcript or disconnect.
C9_GetTranscriptSnapshot ==
    \A w \in WebSockets :
        pc[w] = "stream" => Deref(Hub, transcript[w]) = snapshot[w]

\* C10: the first frame an observer is sent is the history holding the
\* session's buffer as it is when the observer is registered, and no frame
\* received from an observer appends to a buffer, touches the bridge or
\* writes the durable transcript.
C10_ObserverReadOnly ==
    /\ [](\A w \in WebSockets : pc[w] = "idle" => outbox[w] = <<>>)
    /\ [][\A w \in WebSockets :
            /\ (pc[w] = "idle" /\ kind'[w] = "observer")
                  => /\ sid'[w] \in DOMAIN transcript_buffers'
                     /\ Len(outbox'[w]) = 1
                     /\ outbox'[w][1].type = "history"
                     /\ outbox'[w][1].history
                            = lists'[transcript_buffers'[sid'[w]]]
            /\ outbox[w] # <<>>
                  => (outbox'[w] # <<>> /\ outbox'[w][1] = outbox[w][1])
            /\ (ObserverRecvPing(w) \/ ObserverRecvOther(w)
                \/ ObserverRecvBad(w) \/ ObserverRecvDisconnect(w))
                  => /\ \A s \in DOMAIN transcript_buffers' :
                            /\ s \in DOMAIN transcript_buffers
                            /\ Buffer(Hub, s)' = Buffer(Hub, s)
                     /\ UNCHANGED <<bridgevars, db_transcript, tasks, clock>>
         ]_vars

\* an observer that was sent a history of one event or more and then
\* answered a ping
C10_Witness ==
    \E w \in WebSockets :
        /\ kind[w] = "observer"
        /\ Len(outbox[w]) >= 2
        /\ outbox[w][1].type = "history"
        /\ outbox[w][1].history # <<>>
        /\ outbox[w][2].type = "pong"


\* the tasks of a session whose add_to_transcript has run
Started(session_id) ==
    {e \in DOMAIN tasks : /\ sid[tasks[e].owner] = session_id
                          /\ tasks[e].pc # "scheduled"}
\* the broadcast of task e ends at this step (it returns or raises)
BroadcastEnds(e) == tasks[e].pc = "sending" /\ tasks'[e].pc # "sending"

\* C11: when a second observer joins a session, its history holds every
\* event recorded for the session before, in order; and the first observer
\* is sent what it would be sent without the second: every transcript event
\* handled while it is registered.
C11_SecondObserver ==
    [][/\ \A w \in WebSockets :
             (pc[w] = "idle" /\ kind'[w] = "observer") =>
                 LET h == outbox'[w][1].history
                 IN /\ Len(h) = Cardinality(Started(sid'[w]))
                    /\ \A i \in DOMAIN h : /\ h[i].text = tasks[i].text
                                           /\ h[i].is_final = tasks[i].is_final
       /\ \A e \in DOMAIN tasks :
             (BroadcastEnds(e) /\ tasks[e].text \notin BlankTexts) =>
                 \A w \in tasks[e].targets :
                     kind[w] = "observer" => w \in tasks'[e].delivered
      ]_vars

\* C12: a result with text schedules one callback, which appends one event to
\* the buffer and sends one transcript frame to every websocket registered
\* when it is handled; a final result whose commit succeeds leaves the
\* durable transcript ending with its text.
C12_ResultHandledOnce ==
    [][/\ Len(tasks') <= Len(tasks) + 1
       /\ \A e \in DOMAIN tasks :
             /\ (tasks[e].pc = "scheduled" /\ tasks'[e].pc # "scheduled")
                   => Len(Buffer(Hub, sid[tasks[e].owner])')
                        = Len(Buffer(Hub, sid[tasks[e].owner])) + 1
             /\ (tasks[e].pc # "done" /\ tasks'[e].pc = "done"
                 /\ tasks[e].text \notin BlankTexts)
                   => /\ tasks'[e].delivered = tasks'[e].targets
                      /\ (tasks[e].is_final /\ tasks'[e].outcome = "ok")
                            => LET d == db_transcript'[sid[tasks[e].owner]]
                               IN d # <<>> /\ d[Len(d)] = tasks[e].text
      ]_vars

\* C17: no callback is ever scheduled for a result whose text is empty or
\* white space only.
C17_BlankSuppressed ==
    \A e \in DOMAIN tasks : tasks[e].text \notin BlankTexts


\* the audio handler of w leaves its loop at a stop message
StopStep(w) ==
    /\ kind[w] = "audio"
    /\ pc[w] = "loop" /\ pc'[w] = "done"
    /\ error'[w] = None

\* C13: at a stop message the audio loop ends, the connection registered for
\* the session is finished and removed from the bridge, and a send_audio for
\* the session then raises "No active connection".
C13_StopClosesProvider ==
    [][\A w \in WebSockets :
          StopStep(w) =>
              /\ sid[w] \in DOMAIN dg_connections
                    => conn'[dg_connections[sid[w]]] = "finished"
              /\ sid[w] \notin DOMAIN dg_connections'
              /\ send_audio(Bridge, sid[w])'.raised = "No active connection"
              /\ send_audio(Bridge, sid[w])'.B.sent = sent_audio
      ]_vars

\* an audio handler stopped while its connection was registered
C13_Witness ==
    \E w \in WebSockets :
        /\ kind[w] = "audio" /\ pc[w] = "done" /\ error[w] = None
        /\ conn[w] = "finished"
        /\ sent_audio[w] > 0

\* C14: every audio websocket that was registered with the hub is torn down
\* when its handler ends, whatever ended it (here: with the session found and
\* the provider configured): it is no member of the hub any more and the
\* connection it started is not registered.
C14_TeardownNeverSkipped ==
    \A w \in WebSockets :
        (/\ kind[w] = "audio" /\ pc[w] = "done"
         /\ sid[w] \in ExistingSessions /\ deepgram_service)
            => /\ w \notin Members(Hub, sid[w])
               /\ sid[w] \in DOMAIN dg_connections => dg_connections[sid[w]] # w

\* C15: an audio websocket for a session that does not exist starts no
\* provider connection and is sent nothing but one error frame; when its
\* handler has returned it is closed and is no member of the hub.
C15_UnknownSessionRejected ==
    \A w \in WebSockets :
        (kind[w] = "audio" /\ sid[w] \notin ExistingSessions)
            => /\ conn[w] = "none"
               /\ Len(outbox[w]) <= 1
               /\ \A i \in DOMAIN outbox[w] : outbox[w][i].type = "error"
               /\ pc[w] = "done" => /\ transport[w] = "closed"
                                    /\ w \notin Members(Hub, sid[w])

\* the durable append of task e fails at this step, after its broadcast
PersistFails(e) ==
    /\ tasks[e].pc # "done" /\ tasks'[e].pc = "done"
    /\ tasks'[e].bcast = "returned"
    /\ tasks'[e].outcome \in {"error", "refused"}

\* C16: when the durable append of a final event fails, its broadcast has
\* returned: every websocket that was registered when the event was handled
\* and still is has been sent the event; the failure takes nothing back (the
\* frames sent and the buffers stay) and ends no handler: the audio loop, the
\* provider connections and the other websockets go on.
C16_PersistFailureKeepsBroadcast ==
    [][\A e \in DOMAIN tasks :
          PersistFails(e) =>
              LET t == tasks'[e]
                  s == sid[tasks[e].owner]
              IN /\ \A w \in (t.targets \cap Members(Hub, s)') \ t.disconnected :
                       /\ w \in t.delivered
                       /\ \E i \in DOMAIN outbox'[w] :
                             outbox'[w][i] = TranscriptMsg(t.text, t.is_final)
                 /\ \A w \in WebSockets :
                       /\ Len(outbox'[w]) >= Len(outbox[w])
                       /\ SubSeq(outbox'[w], 1, Len(outbox[w])) = outbox[w]
                 /\ \A i \in DOMAIN lists :
                       SubSeq(lists'[i], 1, Len(lists[i])) = lists[i]
                 /\ UNCHANGED <<pc, transport, bridgevars, db_transcript>>
                 /\ tasks[e].pc = "commit" => UNCHANGED hubvars
      ]_vars

\* a commit failed for an event that an observer had been sent, and the
\* audio handler is still in its loop
C16_Witness ==
    \E e \in DOMAIN tasks :
        /\ tasks[e].pc = "done" /\ tasks[e].outcome = "error"
        /\ tasks[e].bcast = "returned"
        /\ pc[tasks[e].owner] = "loop"
        /\ \E w \in tasks[e].delivered :
              kind[w] = "observer" /\ w \in Members(Hub, sid[w])

\* C18: with no provider configured, an audio websocket of an existing
\* session is told so and stays open and registered: the server does not
\* close it.
C18_DegradedStaysOpen ==
    \A w \in WebSockets :
        (/\ kind[w] = "audio" /\ sid[w] \in ExistingSessions
         /\ ~deepgram_service /\ pc[w] \notin {"idle", "verify"})
            => /\ \E i \in DOMAIN outbox[w] : outbox[w][i].type = "error"
               /\ transport[w] # "closed"
               /\ w \in Members(Hub, sid[w])

\* the provider connection of w's session fails to start at this step
StartFails(w) ==
    /\ pc[w] = "verify"
    /\ error'[w] = "Failed to start Deepgram connection"

\* C19: when the provider connection of a session fails, every websocket
\* registered for the session is sent an error frame, and the sets, buffers
\* and connections of the other sessions stay as they are.
C19_ProviderFailureBroadcast ==
    [][\A w \in WebSockets :
          StartFails(w) =>
              /\ \A v \in Members(Hub, sid[w]) :
                    transport[v] = "open" =>
                        /\ Len(outbox'[v]) = Len(outbox[v]) + 1
                        /\ outbox'[v][Len(outbox'[v])].type = "error"
              /\ \A s \in SessionIds \ {sid[w]} :
                    /\ Members(Hub, s)' = Members(Hub, s)
                    /\ Buffer(Hub, s)' = Buffer(Hub, s)
                    /\ (s \in DOMAIN dg_connections) = (s \in DOMAIN dg_connections')
      ]_vars

\* C20: the results of a session are handled in the order the provider
\* emitted them: a callback starts (and appends to the buffer) only after
\* those scheduled before it, and no websocket is sent the event of a result
\* after it was sent the event of a later one, also when the earlier
\* callback is suspended in a send while the later one starts.
C20_EmissionOrder ==
    /\ [](\A e1, e2 \in DOMAIN tasks :
             (e1 < e2 /\ tasks[e2].pc # "scheduled") => tasks[e1].pc # "scheduled")
    /\ [][\A e1, e2 \in DOMAIN tasks : \A w \in WebSockets :
            (/\ e1 < e2
             /\ sid[tasks[e1].owner] = sid[tasks[e2].owner]
             /\ w \notin tasks[e1].delivered
             /\ w \in tasks'[e1].delivered)
                => w \notin tasks[e2].delivered
         ]_vars


\* ------------------------------------------------------- the durable store
\* the final transcripts of a session, in the order the provider emitted them
FinalTasks(session_id) ==
    SelectSeq(tasks, LAMBDA t : t.is_final /\ sid[t.owner] = session_id)
FinalTexts(session_id) ==
    [i \in 1..Len(FinalTasks(session_id)) |-> FinalTasks(session_id)[i].text]
\* every callback of the session is over; its broadcast returned and its
\* database commit, if it made one, did not fail
Settled(session_id) ==
    \A e \in DOMAIN tasks :
       sid[tasks[e].owner] = session_id =>
          /\ tasks[e].pc = "done"
          /\ tasks[e].bcast = "returned"
          /\ tasks[e].outcome \in {"ok", "refused"}
IsPrefix(p, q) == Len(p) <= Len(q) /\ \A i \in 1..Len(p) : q[i] = p[i]

\* C21: when the final events of a session, all from one provider
\* connection, were handled with their callbacks interleaved, the stored
\* transcript holds each final text exactly once, in the order of emission.
C21_DurableAppendsSerialized ==
    \A s \in ExistingSessions :
       (/\ Settled(s)
        /\ \A e, f \in DOMAIN tasks :
              (sid[tasks[e].owner] = s /\ sid[tasks[f].owner] = s) =>
                 tasks[e].owner = tasks[f].owner)
       => db_transcript[s] = FinalTexts(s)

\* C22: the stored transcript only grows by appending: a write leaves what
\* was stored before as a prefix of what is stored after.
C22_StoredTranscriptGrows ==
    [][\A s \in ExistingSessions :
          IsPrefix(db_transcript[s], db_transcript'[s])]_vars


\* ------------------------------------------------- the bridge and its races
\* C23: every chunk is written to a connection handle that is open at the
\* moment of the write, whatever the provider's thread did before.
C23_NoSendOnClosedHandle ==
    [][\A c \in WebSockets :
          sent_audio'[c] > sent_audio[c] => Streaming(c)]_vars

\* C24: the hub holds a transcript buffer for a session exactly when it
\* holds a connection set for it.
C24_BufferIffConnectionSet ==
    DOMAIN transcript_buffers = DOMAIN active_connections

\* the connections started for a session and neither finished nor closed by
\* the provider
Live(session_id) ==
    {c \in WebSockets : sid[c] = session_id /\ Streaming(c)}

\* C25: at most one provider connection is live per session, and it is the
\* one the bridge has registered for the session.
C25_OneLiveConnection ==
    \A s \in SessionIds :
       /\ Cardinality(Live(s)) <= 1
       /\ \A c \in Live(s) :
             s \in DOMAIN dg_connections /\ dg_connections[s] = c


\* ------------------------------------------- broadcasts and who gets them
\* the connection set that the broadcast of task e iterates
Iterated(e) == sets[tasks[e].it_set]
\* the websockets registered for the whole broadcast of task e, which ends
\* at this step, and whose transport can still take a frame
Throughout(e) ==
    {w \in tasks[e].targets \cap Members(Hub, sid[tasks[e].owner])' :
        transport[w] = "open"}

\* C26: when the only thing that happens to a session during a broadcast is
\* that observers end on an error of their own (a malformed frame, a
\* transport drop), every other websocket registered for the session is
\* sent the event.
C26_LocalErrorContained ==
    [][\A e \in DOMAIN tasks :
          (/\ BroadcastEnds(e)
           /\ Iterated(e) \subseteq tasks[e].targets
           /\ \A w \in tasks[e].targets \ Iterated(e) :
                 kind[w] = "observer" /\ pc[w] = "done")
          => Throughout(e) \subseteq tasks'[e].delivered]_vars

\* C28: a broadcast returns without raising and has sent the event to every
\* websocket registered for the whole of it, whatever connected to or
\* disconnected from the session while it was suspended.
C28_BroadcastNotAborted ==
    [][\A e \in DOMAIN tasks :
          BroadcastEnds(e) =>
             /\ tasks'[e].bcast = "returned"
             /\ Throughout(e) \subseteq tasks'[e].delivered]_vars

\* the history message sent to observer w holds the event of task e
InHistory(w, e) ==
    \E i \in DOMAIN snapshot[w] : snapshot[w][i].timestamp = e - 1

\* C29: an observer that stays connected has every event recorded for its
\* session either in its history message or sent to it as a transcript
\* event, and not both.
C29_ObserverSeesEachOnce ==
    \A w \in WebSockets :
       (kind[w] = "observer" /\ pc[w] = "stream" /\ transport[w] = "open") =>
          \A e \in DOMAIN tasks :
             (/\ sid[tasks[e].owner] = sid[w]
              /\ tasks[e].pc \notin {"scheduled", "sending"})
             => (InHistory(w, e) # (w \in tasks[e].delivered))

\* C30: when the handler of an audio socket ends, another audio socket of
\* the same session that is in its receive loop and could forward a chunk
\* before can still forward one after.
C30_TeardownSparesOthers ==
    [][\A w, v \in WebSockets :
          (/\ kind[w] = "audio" /\ HandlerExit(w)
           /\ v # w /\ kind[v] = "audio" /\ sid[v] = sid[w]
           /\ pc[v] = "loop" /\ pc'[v] = "loop"
           /\ send_audio(Bridge, sid[v]).raised = None)
          => send_audio(Bridge, sid[v])'.raised = None]_vars


\* the provider's thread delivers the Error event of connection c
ErrorEvent(c) == conn[c] = "open" /\ conn'[c] = "errored"
\* the provider's thread delivers the Close event of connection c
CloseEvent(c) == conn[c] \in {"dropped", "finished"} /\ conn'[c] = "closed"

\* C27: after the Close event or the Error event of a session's connection
\* the bridge holds no handle for the session, and a send_audio for it
\* raises "No active connection".
C27_ProviderEventClearsHandle ==
    [][\A c \in WebSockets :
          (ErrorEvent(c) \/ CloseEvent(c)) =>
             /\ sid[c] \notin DOMAIN dg_connections'
             /\ send_audio(Bridge, sid[c])'.raised # None]_vars

=============================================================================
